---- MODULE Spec2Model ----
(***************************************************************************)
(* Model of port/windows/critutil.c of LibOpenBLT: the process-wide        *)
(* critical section utility (UtilCriticalSectionInit / Terminate / Enter / *)
(* Exit) on top of a Win32 CRITICAL_SECTION object.                        *)
(*                                                                         *)
(* The functions are modelled statement by statement, one action per       *)
(* statement of the C source, for each calling thread.  The build that is  *)
(* modelled has assertions disabled (NDEBUG): assert() expands to nothing. *)
(* criticalSectionNesting is a uint32_t.  A value v of that type is        *)
(* represented by the integer congruent to v modulo 2^32 in the range      *)
(* -2^31 .. 2^31-1 (0xFFFFFFFF is -1), so that ++ and -- wrap as in C.     *)
(***************************************************************************)
EXTENDS Integers, Sequences, FiniteSets, TLC

\* ------------------------------------------------------------------ bounds
NumThreads == 2
MaxCalls == 7
MaxConcurrentCalls == 3

Threads == 1..NumThreads
MainThread == 1
NoThread == 0

Ops == {"Init", "Terminate", "Enter", "Exit"}

VARIABLES
  criticalSectionInitialized, \* static bool, critutil.c:43
  criticalSectionNesting,     \* static uint32_t, critutil.c:46
  criticalSection,            \* static CRITICAL_SECTION, critutil.c:49
  pc,                         \* position of each thread in the code
  reg,                        \* per thread: value loaded by nesting++ / nesting--
  os,                         \* number of calls made to each Win32 operation
  csMisuse,                   \* Win32 operations applied to an object in a wrong state
  depth,                      \* per thread: Enter calls returned, matching Exit not started
  hist,                       \* the calls started so far, in order
  pre                         \* the state when the most recent call started

vars == <<criticalSectionInitialized, criticalSectionNesting, criticalSection,
          pc, reg, os, csMisuse, depth, hist, pre>>

\* ------------------------------------------------------ uint32_t arithmetic
INT32_MAX == 2147483647
INT32_MIN == -INT32_MAX - 1

\* n + 1 modulo 2^32
U32Inc(n) == IF n = INT32_MAX THEN INT32_MIN ELSE n + 1

\* n - 1 modulo 2^32
U32Dec(n) == IF n = INT32_MIN THEN INT32_MAX ELSE n - 1

\* n > 0 for an unsigned n
U32Positive(n) == n # 0

\* ------------------------------------------------- the CRITICAL_SECTION object
\* A CRITICAL_SECTION that is not (or no longer) initialized.
NoCriticalSection ==
  [constructed |-> FALSE, owner |-> NoThread, recursion |-> 0, corrupt |-> FALSE]

\* A freshly initialized CRITICAL_SECTION: owned by nobody.
FreshCriticalSection ==
  [constructed |-> TRUE, owner |-> NoThread, recursion |-> 0, corrupt |-> FALSE]

Held == criticalSection.owner # NoThread

\* InitializeCriticalSection(&cs): the object becomes a fresh, unowned lock.
\* Applied to an object that is already initialized the result is undefined;
\* the object is overwritten with a fresh one and the misuse is recorded.
InitializeCriticalSection(cs) ==
  [lock |-> FreshCriticalSection,
   misuse |-> IF cs.constructed THEN {"construct_constructed"} ELSE {}]

\* DeleteCriticalSection(&cs): releases the object, which is then unusable
\* until it is initialized again.
DeleteCriticalSection(cs) ==
  [lock |-> NoCriticalSection,
   misuse |-> IF cs.constructed THEN {} ELSE {"destroy_unconstructed"}]

\* EnterCriticalSection(&cs) by thread t returns when t owns the object: it
\* waits while another thread owns it, and is recursive for the owner.
CanEnterCriticalSection(cs, t) ==
  \/ ~cs.constructed
  \/ (~cs.corrupt /\ cs.owner \in {NoThread, t})

EnterCriticalSection(cs, t) ==
  IF cs.constructed
    THEN [lock |-> [cs EXCEPT !.owner = t, !.recursion = cs.recursion + 1],
          misuse |-> {}]
    ELSE [lock |-> cs, misuse |-> {"acquire_unconstructed"}]

\* LeaveCriticalSection(&cs) by thread t: one level of ownership is given
\* up.  Called by a thread that does not own the object "an error occurs
\* that may cause another thread using EnterCriticalSection to wait
\* indefinitely": the outcomes are the object released or the object
\* corrupted (wedge = TRUE).
LeaveCriticalSection(cs, t, wedge) ==
  IF ~cs.constructed
    THEN [lock |-> cs, misuse |-> {"release_unconstructed"}]
  ELSE IF cs.owner = t
    THEN [lock |-> IF cs.recursion = 1
                     THEN [cs EXCEPT !.owner = NoThread, !.recursion = 0]
                     ELSE [cs EXCEPT !.recursion = cs.recursion - 1],
          misuse |-> {}]
  ELSE [lock |-> IF wedge THEN [cs EXCEPT !.corrupt = TRUE]
                          ELSE [cs EXCEPT !.owner = NoThread, !.recursion = 0],
        misuse |-> IF cs.owner = NoThread THEN {"release_unheld"}
                                          ELSE {"release_nonowner"}]

\* The outcomes of LeaveCriticalSection that the object's state allows.
LeaveOutcomes(cs, t) ==
  IF cs.constructed /\ cs.owner # t THEN {FALSE, TRUE} ELSE {FALSE}

\* ------------------------------------------------------------- bookkeeping
Snapshot ==
  [initialized |-> criticalSectionInitialized,
   nesting |-> criticalSectionNesting,
   lock |-> criticalSection,
   os |-> os]

Count(op) == [os EXCEPT ![op] = os[op] + 1]

Goto(t, label) == pc' = [pc EXCEPT ![t] = label]

Entry(op) ==
  CASE op = "Init" -> "init_if"
    [] op = "Terminate" -> "term_if"
    [] op = "Enter" -> "enter_if"
    [] op = "Exit" -> "exit_if"

\* Thread t calls one of the four functions.
Call(t, op) ==
  /\ pc[t] = "idle"
  /\ Len(hist) < MaxCalls
  /\ Goto(t, Entry(op))
  /\ hist' = Append(hist, op)
  /\ pre' = Snapshot
  /\ depth' = IF op = "Exit" /\ depth[t] > 0
                THEN [depth EXCEPT ![t] = depth[t] - 1]
                ELSE depth
  /\ UNCHANGED <<criticalSectionInitialized, criticalSectionNesting,
                 criticalSection, reg, os, csMisuse>>

CallInit(t) == Call(t, "Init")
CallTerminate(t) == Call(t, "Terminate")
CallEnter(t) == Call(t, "Enter")
CallExit(t) == Call(t, "Exit")

Init ==
  /\ criticalSectionInitialized = FALSE
  /\ criticalSectionNesting = 0
  /\ criticalSection = NoCriticalSection
  /\ pc = [t \in Threads |-> "idle"]
  /\ reg = [t \in Threads |-> 0]
  /\ os = [construct |-> 0, destroy |-> 0, acquire |-> 0, release |-> 0]
  /\ csMisuse = {}
  /\ depth = [t \in Threads |-> 0]
  /\ hist = <<>>
  /\ pre = [initialized |-> FALSE, nesting |-> 0, lock |-> NoCriticalSection,
            os |-> [construct |-> 0, destroy |-> 0, acquire |-> 0, release |-> 0]]

\* ------------------------------------------------ UtilCriticalSectionInit
\* Mutant: the initialized flag is not tested, every call constructs.
InitIf_NoTest(t) ==
  /\ pc[t] = "init_if"
  /\ Goto(t, "init_construct")
  /\ UNCHANGED <<criticalSectionInitialized, criticalSectionNesting,
                 criticalSection, reg, os, csMisuse, depth, hist, pre>>

\* if (!criticalSectionInitialized)
InitIf(t) ==
  /\ pc[t] = "init_if"
  /\ Goto(t, IF ~criticalSectionInitialized THEN "init_construct" ELSE "idle")
  /\ UNCHANGED <<criticalSectionInitialized, criticalSectionNesting,
                 criticalSection, reg, os, csMisuse, depth, hist, pre>>

\* InitializeCriticalSection(&criticalSection);
InitConstruct(t) ==
  /\ pc[t] = "init_construct"
  /\ LET r == InitializeCriticalSection(criticalSection) IN
       /\ criticalSection' = r.lock
       /\ csMisuse' = csMisuse \cup r.misuse
  /\ os' = Count("construct")
  /\ Goto(t, "init_reset")
  /\ UNCHANGED <<criticalSectionInitialized, criticalSectionNesting,
                 reg, depth, hist, pre>>

\* criticalSectionNesting = 0;
InitResetNesting(t) ==
  /\ pc[t] = "init_reset"
  /\ criticalSectionNesting' = 0
  /\ Goto(t, "init_flag")
  /\ UNCHANGED <<criticalSectionInitialized, criticalSection,
                 reg, os, csMisuse, depth, hist, pre>>

\* criticalSectionInitialized = true;
InitSetFlag(t) ==
  /\ pc[t] = "init_flag"
  /\ criticalSectionInitialized' = TRUE
  /\ Goto(t, "idle")
  /\ UNCHANGED <<criticalSectionNesting, criticalSection,
                 reg, os, csMisuse, depth, hist, pre>>

UtilCriticalSectionInit(t) ==
  \/ InitIf(t)
  \/ InitConstruct(t)
  \/ InitResetNesting(t)
  \/ InitSetFlag(t)

\* ------------------------------------------- UtilCriticalSectionTerminate
\* Mutant: the initialized flag is not tested, every call destroys.
TermIf_NoTest(t) ==
  /\ pc[t] = "term_if"
  /\ Goto(t, "term_flag")
  /\ UNCHANGED <<criticalSectionInitialized, criticalSectionNesting,
                 criticalSection, reg, os, csMisuse, depth, hist, pre>>

\* if (criticalSectionInitialized)
TermIf(t) ==
  /\ pc[t] = "term_if"
  /\ Goto(t, IF criticalSectionInitialized THEN "term_flag" ELSE "idle")
  /\ UNCHANGED <<criticalSectionInitialized, criticalSectionNesting,
                 criticalSection, reg, os, csMisuse, depth, hist, pre>>

\* Mutant: the initialized flag is left set.
TermClearFlag_KeepFlag(t) ==
  /\ pc[t] = "term_flag"
  /\ Goto(t, "term_reset")
  /\ UNCHANGED <<criticalSectionInitialized, criticalSectionNesting, criticalSection,
                 reg, os, csMisuse, depth, hist, pre>>

\* criticalSectionInitialized = false;
TermClearFlag(t) ==
  /\ pc[t] = "term_flag"
  /\ criticalSectionInitialized' = FALSE
  /\ Goto(t, "term_reset")
  /\ UNCHANGED <<criticalSectionNesting, criticalSection,
                 reg, os, csMisuse, depth, hist, pre>>

\* Mutant: the nesting counter is not reset.
TermResetNesting_NoReset(t) ==
  /\ pc[t] = "term_reset"
  /\ Goto(t, "term_delete")
  /\ UNCHANGED <<criticalSectionInitialized, criticalSectionNesting, criticalSection,
                 reg, os, csMisuse, depth, hist, pre>>

\* criticalSectionNesting = 0;
TermResetNesting(t) ==
  /\ pc[t] = "term_reset"
  /\ criticalSectionNesting' = 0
  /\ Goto(t, "term_delete")
  /\ UNCHANGED <<criticalSectionInitialized, criticalSection,
                 reg, os, csMisuse, depth, hist, pre>>

\* Mutant: a lock that is still owned is released before it is deleted.
TermDelete_ReleaseFirst(t) ==
  /\ pc[t] = "term_delete"
  /\ LET r == DeleteCriticalSection(criticalSection) IN
       /\ criticalSection' = r.lock
       /\ csMisuse' = csMisuse \cup r.misuse
  /\ os' = [os EXCEPT !.destroy = os.destroy + 1,
                       !.release = os.release + (IF Held THEN 1 ELSE 0)]
  /\ Goto(t, "idle")
  /\ UNCHANGED <<criticalSectionInitialized, criticalSectionNesting,
                 reg, depth, hist, pre>>

\* DeleteCriticalSection(&criticalSection);
TermDelete(t) ==
  /\ pc[t] = "term_delete"
  /\ LET r == DeleteCriticalSection(criticalSection) IN
       /\ criticalSection' = r.lock
       /\ csMisuse' = csMisuse \cup r.misuse
  /\ os' = Count("destroy")
  /\ Goto(t, "idle")
  /\ UNCHANGED <<criticalSectionInitialized, criticalSectionNesting,
                 reg, depth, hist, pre>>

UtilCriticalSectionTerminate(t) ==
  \/ TermIf(t)
  \/ TermClearFlag(t)
  \/ TermResetNesting(t)
  \/ TermDelete(t)

\* ----------------------------------------------- UtilCriticalSectionEnter
\* The thread returns from UtilCriticalSectionEnter.
EnterReturn(t) ==
  /\ Goto(t, "idle")
  /\ depth' = [depth EXCEPT ![t] = depth[t] + 1]

\* Mutant: the initialized flag is not tested.
EnterIf_NoTest(t) ==
  /\ pc[t] = "enter_if"
  /\ Goto(t, "enter_nest")
  /\ UNCHANGED <<criticalSectionInitialized, criticalSectionNesting,
                 criticalSection, reg, os, csMisuse, depth, hist, pre>>

\* if (criticalSectionInitialized)
EnterIf(t) ==
  /\ pc[t] = "enter_if"
  /\ IF criticalSectionInitialized
       THEN Goto(t, "enter_nest") /\ UNCHANGED depth
       ELSE EnterReturn(t)
  /\ UNCHANGED <<criticalSectionInitialized, criticalSectionNesting,
                 criticalSection, reg, os, csMisuse, hist, pre>>

\* Mutant: the object is acquired on every call.
EnterNest_AlwaysAcquire(t) ==
  /\ pc[t] = "enter_nest"
  /\ Goto(t, "enter_acquire")
  /\ UNCHANGED <<criticalSectionInitialized, criticalSectionNesting,
                 criticalSection, reg, os, csMisuse, depth, hist, pre>>

\* if (criticalSectionNesting == 0)
EnterNest(t) ==
  /\ pc[t] = "enter_nest"
  /\ Goto(t, IF criticalSectionNesting = 0 THEN "enter_acquire" ELSE "enter_load")
  /\ UNCHANGED <<criticalSectionInitialized, criticalSectionNesting,
                 criticalSection, reg, os, csMisuse, depth, hist, pre>>

\* EnterCriticalSection(&criticalSection);
EnterAcquire(t) ==
  /\ pc[t] = "enter_acquire"
  /\ CanEnterCriticalSection(criticalSection, t)
  /\ LET r == EnterCriticalSection(criticalSection, t) IN
       /\ criticalSection' = r.lock
       /\ csMisuse' = csMisuse \cup r.misuse
  /\ os' = Count("acquire")
  /\ Goto(t, "enter_load")
  /\ UNCHANGED <<criticalSectionInitialized, criticalSectionNesting,
                 reg, depth, hist, pre>>

\* criticalSectionNesting++;  (the read)
EnterLoad(t) ==
  /\ pc[t] = "enter_load"
  /\ reg' = [reg EXCEPT ![t] = criticalSectionNesting]
  /\ Goto(t, "enter_store")
  /\ UNCHANGED <<criticalSectionInitialized, criticalSectionNesting,
                 criticalSection, os, csMisuse, depth, hist, pre>>

\* criticalSectionNesting++;  (the write)
EnterStore(t) ==
  /\ pc[t] = "enter_store"
  /\ criticalSectionNesting' = U32Inc(reg[t])
  /\ EnterReturn(t)
  /\ UNCHANGED <<criticalSectionInitialized, criticalSection,
                 reg, os, csMisuse, hist, pre>>

UtilCriticalSectionEnter(t) ==
  \/ EnterIf(t)
  \/ EnterNest(t)
  \/ EnterAcquire(t)
  \/ EnterLoad(t)
  \/ EnterStore(t)

\* ------------------------------------------------ UtilCriticalSectionExit
\* if (criticalSectionInitialized)
ExitIf(t) ==
  /\ pc[t] = "exit_if"
  /\ Goto(t, IF criticalSectionInitialized THEN "exit_nest" ELSE "idle")
  /\ UNCHANGED <<criticalSectionInitialized, criticalSectionNesting,
                 criticalSection, reg, os, csMisuse, depth, hist, pre>>

\* Mutant: the counter is decremented without the test.
ExitNest_NoTest(t) ==
  /\ pc[t] = "exit_nest"
  /\ Goto(t, "exit_load")
  /\ UNCHANGED <<criticalSectionInitialized, criticalSectionNesting,
                 criticalSection, reg, os, csMisuse, depth, hist, pre>>

\* if (criticalSectionNesting > 0)
ExitNest(t) ==
  /\ pc[t] = "exit_nest"
  /\ Goto(t, IF U32Positive(criticalSectionNesting) THEN "exit_load" ELSE "idle")
  /\ UNCHANGED <<criticalSectionInitialized, criticalSectionNesting,
                 criticalSection, reg, os, csMisuse, depth, hist, pre>>

\* criticalSectionNesting--;  (the read)
ExitLoad(t) ==
  /\ pc[t] = "exit_load"
  /\ reg' = [reg EXCEPT ![t] = criticalSectionNesting]
  /\ Goto(t, "exit_store")
  /\ UNCHANGED <<criticalSectionInitialized, criticalSectionNesting,
                 criticalSection, os, csMisuse, depth, hist, pre>>

\* criticalSectionNesting--;  (the write)
ExitStore(t) ==
  /\ pc[t] = "exit_store"
  /\ criticalSectionNesting' = U32Dec(reg[t])
  /\ Goto(t, "exit_zero")
  /\ UNCHANGED <<criticalSectionInitialized, criticalSection,
                 reg, os, csMisuse, depth, hist, pre>>

\* Mutant: the object is released on every call that decrements.
ExitZero_AlwaysLeave(t) ==
  /\ pc[t] = "exit_zero"
  /\ Goto(t, "exit_leave")
  /\ UNCHANGED <<criticalSectionInitialized, criticalSectionNesting,
                 criticalSection, reg, os, csMisuse, depth, hist, pre>>

\* if (criticalSectionNesting == 0)
ExitZero(t) ==
  /\ pc[t] = "exit_zero"
  /\ Goto(t, IF criticalSectionNesting = 0 THEN "exit_leave" ELSE "idle")
  /\ UNCHANGED <<criticalSectionInitialized, criticalSectionNesting,
                 criticalSection, reg, os, csMisuse, depth, hist, pre>>

\* Mutant: the release waits until the lock is free or owned by the caller.
ExitLeave_WaitForOwner(t) ==
  /\ pc[t] = "exit_leave"
  /\ criticalSection.owner \in {NoThread, t}
  /\ \E wedge \in LeaveOutcomes(criticalSection, t) :
       LET r == LeaveCriticalSection(criticalSection, t, wedge) IN
         /\ criticalSection' = r.lock
         /\ csMisuse' = csMisuse \cup r.misuse
  /\ os' = Count("release")
  /\ Goto(t, "idle")
  /\ UNCHANGED <<criticalSectionInitialized, criticalSectionNesting,
                 reg, depth, hist, pre>>

\* LeaveCriticalSection(&criticalSection);
ExitLeave(t) ==
  /\ pc[t] = "exit_leave"
  /\ \E wedge \in LeaveOutcomes(criticalSection, t) :
       LET r == LeaveCriticalSection(criticalSection, t, wedge) IN
         /\ criticalSection' = r.lock
         /\ csMisuse' = csMisuse \cup r.misuse
  /\ os' = Count("release")
  /\ Goto(t, "idle")
  /\ UNCHANGED <<criticalSectionInitialized, criticalSectionNesting,
                 reg, depth, hist, pre>>

UtilCriticalSectionExit(t) ==
  \/ ExitIf(t)
  \/ ExitNest(t)
  \/ ExitLoad(t)
  \/ ExitStore(t)
  \/ ExitZero(t)
  \/ ExitLeave(t)

\* --------------------------------------------------------- specifications
\* One thread makes the calls, in any order, each running to completion
\* before the next starts.
Next ==
  \E t \in {MainThread} :
    \/ CallInit(t)
    \/ CallTerminate(t)
    \/ CallEnter(t)
    \/ CallExit(t)
    \/ UtilCriticalSectionInit(t)
    \/ UtilCriticalSectionTerminate(t)
    \/ UtilCriticalSectionEnter(t)
    \/ UtilCriticalSectionExit(t)

Spec == Init /\ [][Next]_vars

\* The main thread initializes the module once; after that every thread
\* calls Enter and Exit in matched pairs (an Exit only for an Enter of its
\* own that it has not yet exited), and nobody calls Terminate.
PairsCallInit(t) ==
  /\ t = MainThread
  /\ hist = <<>>
  /\ CallInit(t)

PairsCallEnter(t) ==
  /\ hist # <<>>
  /\ pc[MainThread] \notin {"init_if", "init_construct", "init_reset", "init_flag"}
  /\ CallEnter(t)

PairsCallExit(t) ==
  /\ depth[t] > 0
  /\ CallExit(t)

NextPairs ==
  \E t \in Threads :
    \/ PairsCallInit(t)
    \/ PairsCallEnter(t)
    \/ PairsCallExit(t)
    \/ UtilCriticalSectionInit(t)
    \/ UtilCriticalSectionEnter(t)
    \/ UtilCriticalSectionExit(t)

SpecPairs == Init /\ [][NextPairs]_vars

\* The same callers under fair scheduling: a thread that is inside a call
\* keeps running, a thread that waits in EnterCriticalSection gets the lock
\* if it is free again and again, and a thread that has returned from Enter
\* calls its matching Exit.  An Enter is only called when the call budget
\* leaves room for the Exit calls still owed.
EnterLabels == {"enter_if", "enter_nest", "enter_acquire", "enter_load", "enter_store"}

RECURSIVE OwedExits(_)
OwedExits(T) ==
  IF T = {} THEN 0
  ELSE LET t == CHOOSE x \in T : TRUE IN
         depth[t] + (IF pc[t] \in EnterLabels THEN 1 ELSE 0) + OwedExits(T \ {t})

FairCallEnter(t) ==
  /\ Len(hist) + OwedExits(Threads) + 2 <= MaxCalls
  /\ PairsCallEnter(t)

NextPairsFair ==
  \E t \in Threads :
    \/ PairsCallInit(t)
    \/ FairCallEnter(t)
    \/ PairsCallExit(t)
    \/ UtilCriticalSectionInit(t)
    \/ UtilCriticalSectionEnter(t)
    \/ UtilCriticalSectionExit(t)

SpecPairsFair ==
  /\ Init
  /\ [][NextPairsFair]_vars
  /\ \A t \in Threads :
       /\ WF_vars(UtilCriticalSectionInit(t))
       /\ WF_vars(UtilCriticalSectionEnter(t))
       /\ SF_vars(EnterAcquire(t))
       /\ WF_vars(UtilCriticalSectionExit(t))
       /\ WF_vars(PairsCallExit(t))

\* Every thread calls any of the four functions at any time: the calls of
\* different threads interleave statement by statement.
ThreadsCallInit(t) ==
  /\ Len(hist) < MaxConcurrentCalls
  /\ CallInit(t)

ThreadsCallTerminate(t) ==
  /\ Len(hist) < MaxConcurrentCalls
  /\ CallTerminate(t)

ThreadsCallEnter(t) ==
  /\ Len(hist) < MaxConcurrentCalls
  /\ CallEnter(t)

ThreadsCallExit(t) ==
  /\ Len(hist) < MaxConcurrentCalls
  /\ CallExit(t)

NextThreads ==
  \E t \in Threads :
    \/ ThreadsCallInit(t)
    \/ ThreadsCallTerminate(t)
    \/ ThreadsCallEnter(t)
    \/ ThreadsCallExit(t)
    \/ UtilCriticalSectionInit(t)
    \/ UtilCriticalSectionTerminate(t)
    \/ UtilCriticalSectionEnter(t)
    \/ UtilCriticalSectionExit(t)

SpecThreads == Init /\ [][NextThreads]_vars

\* ------------------------------------------------------------ shorthands
Idle == \A t \in Threads : pc[t] = "idle"

LastOp == IF hist = <<>> THEN "none" ELSE hist[Len(hist)]

\* The sequence of n calls of op.
Repeat(op, n) == [i \in 1..n |-> op]

\* One Initialize, n Enter calls, then the first j of the n Exit calls.
EnterExitRun(n, j) == <<"Init">> \o Repeat("Enter", n) \o Repeat("Exit", j)

InRegion == {t \in Threads : depth[t] > 0}

\* ------------------------------------------------------------------ claims

\* C1: with the module initialized and no Terminate, when threads call Enter
\* and Exit in matched pairs, at most one thread at a time has returned from
\* Enter and not yet started its matching Exit.
C1_MutualExclusion ==
  criticalSectionInitialized => Cardinality(InRegion) <= 1

\* C2: after one Initialize, N Enter calls followed by N Exit calls by one
\* thread acquire the lock once, on the first Enter, and release it once, on
\* the last Exit, and end with nesting 0 and the lock unheld.
C2_NestedPairsAcquireOnce ==
  \A n \in 1..MaxCalls : \A j \in 0..n :
    (Idle /\ hist = EnterExitRun(n, j)) =>
      /\ os.acquire = 1
      /\ os.release = (IF j = n THEN 1 ELSE 0)
      /\ Held <=> j < n
      /\ j = n => criticalSectionNesting = 0

C2_Witness ==
  /\ Idle
  /\ hist = EnterExitRun(2, 2)
  /\ os.acquire = 1
  /\ os.release = 1

\* The state after the first effective Initialize of a run.
InitializedOnce ==
  [initialized |-> TRUE, nesting |-> 0, lock |-> FreshCriticalSection,
   os |-> [construct |-> 1, destroy |-> 0, acquire |-> 0, release |-> 0]]

\* C3: N >= 1 Initialize calls from the uninitialized state give the state
\* one call gives (initialized, nesting 0, lock constructed once and
\* unheld), and an Initialize while already initialized changes nothing,
\* whatever the nesting value.
C3_InitIdempotent ==
  (Idle /\ LastOp = "Init") =>
    /\ criticalSectionInitialized
    /\ pre.initialized => Snapshot = pre
    /\ ~pre.initialized =>
         Snapshot = [initialized |-> TRUE, nesting |-> 0,
                     lock |-> FreshCriticalSection,
                     os |-> [pre.os EXCEPT !.construct = pre.os.construct + 1]]
    /\ hist = Repeat("Init", Len(hist)) => Snapshot = InitializedOnce

C3_Witness ==
  /\ Idle
  /\ hist = <<"Init", "Enter", "Init">>
  /\ criticalSectionNesting = 1

\* C4: Terminate while uninitialized changes nothing and destroys nothing;
\* Terminate while initialized with nesting 0 destroys the lock once and
\* leaves initialized false and nesting 0.
C4_TerminateIdempotent ==
  (Idle /\ LastOp = "Terminate") =>
    /\ ~criticalSectionInitialized
    /\ ~pre.initialized => Snapshot = pre
    /\ (pre.initialized /\ pre.nesting = 0) =>
         Snapshot = [initialized |-> FALSE, nesting |-> 0,
                     lock |-> NoCriticalSection,
                     os |-> [pre.os EXCEPT !.destroy = pre.os.destroy + 1]]

C4_Witness ==
  /\ Idle
  /\ hist = <<"Init", "Terminate", "Terminate">>
  /\ os.destroy = 1

\* C5: Exit called while initialized with nesting 0 leaves nesting at 0 and
\* makes no release call.
C5_ExitWithoutEnter ==
  (Idle /\ LastOp = "Exit" /\ pre.initialized /\ pre.nesting = 0) =>
    /\ criticalSectionNesting = 0
    /\ os.release = pre.os.release
    /\ criticalSection = pre.lock

C5_Witness ==
  /\ Idle
  /\ hist = <<"Init", "Exit">>
  /\ criticalSectionInitialized

\* C6: Initialize, Initialize, Terminate, Terminate in sequence construct
\* the lock once and destroy it once.
C6_TwoModulesOnce ==
  (Idle /\ hist = <<"Init", "Init", "Terminate", "Terminate">>) =>
    /\ os.construct = 1
    /\ os.destroy = 1

C6_Witness ==
  /\ Idle
  /\ hist = <<"Init", "Init", "Terminate", "Terminate">>
  /\ ~criticalSection.constructed

\* C7 as stated: after two Initialize calls, one Terminate leaves the lock
\* constructed and the module initialized.
C7_ReferenceCounted ==
  (Idle /\ hist = <<"Init", "Init", "Terminate">>) =>
    /\ criticalSectionInitialized
    /\ criticalSection.constructed
    /\ os.destroy = 0

\* C7 amended: the lifecycle is a flag, not a count.  After two Initialize
\* calls the first Terminate destroys the lock and clears initialized; the
\* Enter and Exit calls that follow acquire and release nothing, and a
\* second Terminate destroys nothing.
C7_FirstTerminateDestroys ==
  ( /\ Idle
    /\ Len(hist) >= 3
    /\ SubSeq(hist, 1, 3) = <<"Init", "Init", "Terminate">>
    /\ \A i \in 4..Len(hist) : hist[i] # "Init" ) =>
      /\ ~criticalSectionInitialized
      /\ ~criticalSection.constructed
      /\ criticalSectionNesting = 0
      /\ os = [construct |-> 1, destroy |-> 1, acquire |-> 0, release |-> 0]

C7_Witness ==
  /\ Idle
  /\ hist = <<"Init", "Init", "Terminate", "Enter", "Exit", "Terminate">>
  /\ os.destroy = 1

\* C8: Enter and Exit called while not initialized change neither the
\* flag, the counter nor the lock, and make no acquire or release call.
C8_FailSoft ==
  (Idle /\ LastOp \in {"Enter", "Exit"} /\ ~pre.initialized) => Snapshot = pre

C8_Witness ==
  /\ Idle
  /\ hist = <<"Init", "Terminate", "Enter", "Exit">>
  /\ os.acquire = 0

\* C9: after complete Initialize, Enter and Exit calls by one thread,
\* nesting > 0 exactly when the lock is held, and while it is held there is
\* exactly one acquire more than releases.
C9_NestingIffHeld ==
  (Idle /\ \A i \in 1..Len(hist) : hist[i] # "Terminate") =>
    /\ U32Positive(criticalSectionNesting) <=> Held
    /\ os.acquire - os.release = (IF Held THEN 1 ELSE 0)
    /\ Held => criticalSection.recursion = 1

C9_Witness ==
  /\ Idle
  /\ hist = <<"Init", "Exit", "Enter", "Enter", "Exit">>
  /\ criticalSectionNesting = 1
  /\ Held

\* C10: after complete calls in any order, initialized false implies
\* nesting 0 and the lock not constructed.
C10_UninitializedInvariant ==
  (Idle /\ ~criticalSectionInitialized) =>
    /\ criticalSectionNesting = 0
    /\ ~criticalSection.constructed

C10_Witness ==
  /\ Idle
  /\ hist = <<"Init", "Enter", "Enter", "Terminate">>
  /\ ~criticalSectionInitialized

\* Every thread has completed all its Enter/Exit pairs.
Quiescent == Idle /\ hist # <<>> /\ \A t \in Threads : depth[t] = 0

\* C11: with the module initialized, once every thread has completed all its
\* matched Enter/Exit pairs the nesting counter is 0, the lock is unheld and
\* it was released as many times as it was acquired.
C11_QuiescentUnheld ==
  Quiescent =>
    /\ criticalSectionNesting = 0
    /\ ~Held
    /\ os.release = os.acquire

\* C17: when threads call Enter and Exit in matched pairs, every
\* LeaveCriticalSection is made by the thread that owns the lock, and never
\* while the lock is unheld.
C17_OwnerOnlyRelease ==
  csMisuse \cap {"release_nonowner", "release_unheld"} = {}

\* C12: under fair scheduling, with every Enter matched by an Exit and no
\* Terminate, every call of UtilCriticalSectionEnter eventually returns.
C12_EnterReturns ==
  \A t \in Threads : (pc[t] \in EnterLabels) ~> (pc[t] = "idle")

\* C13: when threads call UtilCriticalSectionInit concurrently from the
\* uninitialized state, the lock is constructed exactly once and the final
\* state is initialized with nesting 0.
C13_ConcurrentInitOnce ==
  (Idle /\ hist # <<>> /\ hist = Repeat("Init", Len(hist))) =>
    /\ os.construct = 1
    /\ criticalSectionInitialized
    /\ criticalSectionNesting = 0

InitLabels == {"init_if", "init_construct", "init_reset", "init_flag"}
TermLabels == {"term_if", "term_flag", "term_reset", "term_delete"}
ExitLabels == {"exit_if", "exit_nest", "exit_load", "exit_store", "exit_zero",
               "exit_leave"}

\* A thread inside Init, Terminate or Exit can always take its next step, and
\* so can a thread inside Enter anywhere but at EnterCriticalSection.
C14_NoWait ==
  \A t \in Threads :
    /\ pc[t] \in InitLabels => ENABLED UtilCriticalSectionInit(t)
    /\ pc[t] \in TermLabels => ENABLED UtilCriticalSectionTerminate(t)
    /\ pc[t] \in ExitLabels => ENABLED UtilCriticalSectionExit(t)
    /\ pc[t] \in EnterLabels \ {"enter_acquire"} => ENABLED UtilCriticalSectionEnter(t)

\* Enter goes to EnterCriticalSection exactly when its test reads nesting 0;
\* otherwise it goes on to the increment and returns, and none of these
\* steps touches the lock.
C14_AcquireOnlyOnZero ==
  \A t \in Threads :
    /\ (pc[t] = "enter_nest" /\ pc'[t] # pc[t]) =>
         pc'[t] = (IF criticalSectionNesting = 0 THEN "enter_acquire" ELSE "enter_load")
    /\ (pc'[t] = "enter_acquire" /\ pc[t] # pc'[t]) => pc[t] = "enter_nest"
    /\ (pc[t] \in {"enter_nest", "enter_load", "enter_store"} /\ pc'[t] # pc[t]) =>
         /\ os' = os
         /\ criticalSection' = criticalSection
         /\ pc[t] = "enter_load" => pc'[t] = "enter_store"
         /\ pc[t] = "enter_store" => pc'[t] = "idle"

\* C14: Init, Terminate and Exit never wait on the lock, whatever the other
\* threads hold or do; Enter waits only in EnterCriticalSection, which it
\* calls only when it has read nesting 0, and an Enter that reads nesting > 0
\* returns without acquiring.
C14_OnlyEnterBlocks ==
  /\ []C14_NoWait
  /\ [][C14_AcquireOnlyOnZero]_vars

C14_Witness ==
  \E t \in Threads : \E u \in Threads \ {t} :
    /\ criticalSection.owner = u
    /\ pc[t] = "term_delete"

\* C15: Enter and Exit never change the initialized flag and never construct
\* or destroy the lock.  While initialized, Enter acquires the lock only when
\* nesting goes 0 -> 1 and Exit releases it only when nesting goes 1 -> 0;
\* every other Enter or Exit changes nothing but nesting, by +1 for Enter and
\* -1 for Exit (an Exit at nesting 0 changes nothing at all).
C15_EnterExitFrame ==
  (Idle /\ LastOp \in {"Enter", "Exit"}) =>
    /\ criticalSectionInitialized = pre.initialized
    /\ criticalSection.constructed = pre.lock.constructed
    /\ os.construct = pre.os.construct
    /\ os.destroy = pre.os.destroy
    /\ (pre.initialized /\ LastOp = "Enter") =>
         /\ criticalSectionNesting = U32Inc(pre.nesting)
         /\ IF pre.nesting = 0
              THEN /\ pre.lock.owner = NoThread
                   /\ criticalSection.owner = MainThread
                   /\ os = [pre.os EXCEPT !.acquire = pre.os.acquire + 1]
              ELSE /\ criticalSection = pre.lock
                   /\ os = pre.os
    /\ (pre.initialized /\ LastOp = "Exit") =>
         IF pre.nesting = 0 THEN Snapshot = pre
         ELSE /\ criticalSectionNesting = U32Dec(pre.nesting)
              /\ IF pre.nesting = 1
                   THEN /\ pre.lock.owner = MainThread
                        /\ criticalSection.owner = NoThread
                        /\ os = [pre.os EXCEPT !.release = pre.os.release + 1]
                   ELSE /\ criticalSection = pre.lock
                        /\ os = pre.os

C15_Witness ==
  /\ Idle
  /\ hist = <<"Init", "Enter", "Enter", "Exit">>
  /\ criticalSectionNesting = 1
  /\ Held

\* One Initialize, n Enter calls, Terminate, then j Exit calls.
TerminateHeldRun(n, j) ==
  <<"Init">> \o Repeat("Enter", n) \o <<"Terminate">> \o Repeat("Exit", j)

\* C16: Terminate called while nesting > 0 does not release the lock: it
\* clears initialized, sets nesting to 0 and destroys the lock that is still
\* held.  The Exit calls still outstanding are no-ops without a release, and
\* a later Initialize starts from nesting 0 with a newly constructed lock.
C16_TerminateWhileHeld ==
  /\ (Idle /\ LastOp = "Terminate" /\ pre.initialized /\ U32Positive(pre.nesting)) =>
       /\ pre.lock.owner # NoThread
       /\ Snapshot = [initialized |-> FALSE, nesting |-> 0,
                      lock |-> NoCriticalSection,
                      os |-> [pre.os EXCEPT !.destroy = pre.os.destroy + 1]]
  /\ \A n \in 1..MaxCalls : \A j \in 0..n :
       /\ (Idle /\ hist = TerminateHeldRun(n, j)) =>
            Snapshot = [initialized |-> FALSE, nesting |-> 0,
                        lock |-> NoCriticalSection,
                        os |-> [construct |-> 1, destroy |-> 1,
                                acquire |-> 1, release |-> 0]]
       /\ (Idle /\ hist = TerminateHeldRun(n, j) \o <<"Init">>) =>
            Snapshot = [initialized |-> TRUE, nesting |-> 0,
                        lock |-> FreshCriticalSection,
                        os |-> [construct |-> 2, destroy |-> 1,
                                acquire |-> 1, release |-> 0]]

C16_Witness ==
  /\ Idle
  /\ hist = TerminateHeldRun(2, 2) \o <<"Init">>
  /\ criticalSectionInitialized
  /\ os.construct = 2

\* C18: in any sequence of complete calls, acquire, release and destroy are
\* only applied to a constructed lock, construct is never applied to a
\* constructed lock and release is never applied to an unheld lock.
C18_WellFormedLockUse ==
  csMisuse = {}

C18_Witness ==
  /\ Idle
  /\ hist = <<"Exit", "Terminate", "Init", "Enter", "Terminate", "Exit", "Init">>
  /\ os.construct = 2
  /\ os.destroy = 1

====
